---- MODULE Spec2Model ----
(***************************************************************************)
(* Model of the process-metrics service: the metrics decoder              *)
(* (parse_metrics), the record collector (collect_processed) and the      *)
(* HTTP handlers around the single database file data/live.sqlite.        *)
(*                                                                         *)
(* Python strings that the code splits, trims, parses or converts are     *)
(* modelled as sequences of one-character strings, so that split, strip,  *)
(* int(), float() and str() are computed and not assumed.  An Optional    *)
(* value is None == <<>> or Some(v) == <<v>>.  A float is an exact        *)
(* fraction [n, d] in lowest terms.                                        *)
(***************************************************************************)
EXTENDS Integers, Sequences, FiniteSets, TLC

VARIABLES
    parseCall,    \* SpecParse: one call of parse_metrics, its arguments and result
    collectCall,  \* SpecCollect: one call of collect_processed on a database
    dbFile,       \* Spec: the file at DB_PATH, None while it does not exist
    req,          \* Spec: the request handled last
    resp,         \* Spec: the response to it
    collected,    \* Spec: whether that request invoked collect_processed
    uploaded,     \* Spec: whether some upload has been answered with 200
    liveFile,     \* SpecConc: the file at DB_PATH as the file system holds it
    up,           \* SpecConc: the upload handler's position and data
    qry           \* SpecConc: the query handler's position, observations, results

vars == <<parseCall, collectCall, dbFile, req, resp, collected, uploaded,
          liveFile, up, qry>>

----------------------------------------------------------------------------
(* Optional values and Python truthiness *)

None == <<>>

Some(v) == <<v>>

\* `x or 0` for an Optional[int]: None and 0 are both falsy
OrZero(x) == IF x = None THEN 0 ELSE x[1]

----------------------------------------------------------------------------
(* Strings as sequences of characters *)

Digits == {"0", "1", "2", "3", "4", "5", "6", "7", "8", "9"}

DigitVal(c) ==
    CASE c = "0" -> 0 [] c = "1" -> 1 [] c = "2" -> 2 [] c = "3" -> 3
      [] c = "4" -> 4 [] c = "5" -> 5 [] c = "6" -> 6 [] c = "7" -> 7
      [] c = "8" -> 8 [] c = "9" -> 9

DigitChar(n) ==
    CASE n = 0 -> "0" [] n = 1 -> "1" [] n = 2 -> "2" [] n = 3 -> "3"
      [] n = 4 -> "4" [] n = 5 -> "5" [] n = 6 -> "6" [] n = 7 -> "7"
      [] n = 8 -> "8" [] n = 9 -> "9"

RECURSIVE SplitAcc(_, _, _, _)
SplitAcc(s, sep, cur, acc) ==
    IF s = <<>> THEN Append(acc, cur)
    ELSE IF Head(s) = sep THEN SplitAcc(Tail(s), sep, <<>>, Append(acc, cur))
    ELSE SplitAcc(Tail(s), sep, Append(cur, Head(s)), acc)

\* str.split(sep): always at least one piece, empty pieces kept
split(s, sep) == SplitAcc(s, sep, <<>>, <<>>)

RECURSIVE lstrip(_)
lstrip(s) == IF s /= <<>> /\ Head(s) = " " THEN lstrip(Tail(s)) ELSE s

RECURSIVE rstrip(_)
rstrip(s) ==
    IF s /= <<>> /\ s[Len(s)] = " " THEN rstrip(SubSeq(s, 1, Len(s) - 1)) ELSE s

\* str.strip()
strip(s) == rstrip(lstrip(s))

AllDigits(s) == \A i \in 1..Len(s) : s[i] \in Digits

RECURSIVE DigitsVal(_)
DigitsVal(s) ==
    IF s = <<>> THEN 0
    ELSE 10 * DigitsVal(SubSeq(s, 1, Len(s) - 1)) + DigitVal(s[Len(s)])

RECURSIVE Pow10(_)
Pow10(k) == IF k = 0 THEN 1 ELSE 10 * Pow10(k - 1)

\* the sign of a numeric literal and the literal without it
SignOf(t) == IF t /= <<>> /\ Head(t) = "-" THEN -1 ELSE 1

Unsigned(t) == IF t /= <<>> /\ Head(t) \in {"-", "+"} THEN Tail(t) ELSE t

\* int(v): surrounding blanks allowed, an optional sign, then digits only;
\* None stands for ValueError
PyInt(v) ==
    LET body == Unsigned(strip(v))
    IN  IF body /= <<>> /\ AllDigits(body)
        THEN Some(SignOf(strip(v)) * DigitsVal(body))
        ELSE None

RECURSIVE Gcd(_, _)
Gcd(a, b) == IF b = 0 THEN a ELSE Gcd(b, a % b)

Abs(a) == IF a < 0 THEN -a ELSE a

\* the float n/d, d /= 0, as a fraction in lowest terms with d > 0
Rat(n, d) ==
    LET g == Gcd(Abs(n), Abs(d))
        s == IF d < 0 THEN -1 ELSE 1
    IN  [n |-> (s * n) \div g, d |-> Abs(d) \div g]

FloatZero == Rat(0, 1)

\* float(v): surrounding blanks allowed, an optional sign, digits with at
\* most one decimal point and at least one digit; None stands for ValueError
PyFloat(v) ==
    LET body  == Unsigned(strip(v))
        pieces == split(body, ".")
        whole == pieces[1]
        frac  == IF Len(pieces) = 2 THEN pieces[2] ELSE <<>>
    IN  IF /\ Len(pieces) <= 2
           /\ AllDigits(whole) /\ AllDigits(frac)
           /\ Len(whole) + Len(frac) >= 1
        THEN Some(Rat(SignOf(strip(v)) * (DigitsVal(whole) * Pow10(Len(frac))
                                          + DigitsVal(frac)),
                      Pow10(Len(frac))))
        ELSE None

RECURSIVE NatStr(_)
NatStr(n) ==
    IF n < 10 THEN <<DigitChar(n)>>
    ELSE Append(NatStr(n \div 10), DigitChar(n % 10))

\* str() of a column value: text is kept, an integer becomes its decimal string
PyStr(val) ==
    IF val.t = "text" THEN val.v
    ELSE IF val.v < 0 THEN <<"-">> \o NatStr(-val.v) ELSE NatStr(val.v)

----------------------------------------------------------------------------
(* parse_metrics *)

\* positions of the sub-fields of a chunk (0-based in the code, 1-based here)
METRICS_INDEX ==
    [timestramp |-> 1, usage_time |-> 2, delta_cpu_time |-> 3,
     cpu_usage |-> 4, rx_data |-> 5, tx_data |-> 6]

\* geti: IndexError, the empty string and ValueError all give None
geti(parts, i) ==
    IF i > Len(parts) THEN None
    ELSE IF parts[i] = <<>> THEN None
    ELSE PyInt(parts[i])

getf(parts, i) ==
    IF i > Len(parts) THEN None
    ELSE IF parts[i] = <<>> THEN None
    ELSE PyFloat(parts[i])

\* a mutant of derive_cpu: divides only by a positive usage_time
derive_cpu_positive_only(cpu, usage, dcpu) ==
    IF cpu = None /\ usage /= None /\ usage[1] > 0 /\ dcpu /= None
    THEN Some(Rat(dcpu[1], usage[1]))
    ELSE cpu

\* `if cpu is None and usage and usage != 0 and dcpu is not None`
derive_cpu(cpu, usage, dcpu) ==
    IF cpu = None /\ (usage /= None /\ usage[1] /= 0) /\ usage[1] /= 0
       /\ dcpu /= None
    THEN Some(Rat(dcpu[1], usage[1]))
    ELSE cpu

\* `cpu or 0.0`
cpu_or_zero(cpu) == IF cpu = None \/ cpu[1].n = 0 THEN FloatZero ELSE cpu[1]

\* a mutant of ts_missing: `if not ts` also drops the timestamp 0
ts_missing_falsy(ts) == ts = None \/ ts[1] = 0

\* `if ts is None: continue`
ts_missing(ts) == ts = None

\* the body of the loop over chunks: None when the chunk is dropped
chunk_sample(chunk, pkg, uid) ==
    LET parts == split(chunk, ":")
        ts    == geti(parts, METRICS_INDEX.timestramp)
        usage == geti(parts, METRICS_INDEX.usage_time)
        dcpu  == geti(parts, METRICS_INDEX.delta_cpu_time)
        cpu0  == getf(parts, METRICS_INDEX.cpu_usage)
        rx    == geti(parts, METRICS_INDEX.rx_data)
        tx    == geti(parts, METRICS_INDEX.tx_data)
        cpu   == derive_cpu(cpu0, usage, dcpu)
    IN  IF ts_missing(ts) THEN None
        ELSE Some([timestramp     |-> ts[1],
                   uid            |-> uid,
                   package_name   |-> pkg,
                   usage_time     |-> OrZero(usage),
                   delta_cpu_time |-> OrZero(dcpu),
                   cpu_usage      |-> cpu_or_zero(cpu),
                   rx_data        |-> OrZero(rx),
                   tx_data        |-> OrZero(tx)])

RECURSIVE samples_of(_, _, _)
samples_of(chunks, pkg, uid) ==
    IF chunks = <<>> THEN <<>>
    ELSE (IF strip(Head(chunks)) = <<>> THEN <<>>
          ELSE chunk_sample(Head(chunks), pkg, uid))
         \o samples_of(Tail(chunks), pkg, uid)

parse_metrics(metrics, pkg, uid) ==
    IF metrics = <<>> THEN <<>>
    ELSE samples_of(split(metrics, ";"), pkg, uid)

----------------------------------------------------------------------------
(* collect_processed *)

TABLES == <<"processes1", "processes2", "processes3">>

TableNames == {TABLES[i] : i \in 1..Len(TABLES)}

\* a database gives each table name None (no such table) or Some(rows)
table_exists(db, name) == db[name] /= None

\* truthiness of an Optional[str] filter: None and "" are both falsy
Truthy(f) == f /= None /\ f[1] /= <<>>

\* a mutant of row_passes: the uid filter is forgotten
row_passes_pkg_only(row, package_name, uid) ==
    ~(Truthy(package_name) /\ row.PackageName /= package_name[1])

\* the two `continue` guards on a row
row_passes(row, package_name, uid) ==
    /\ ~(Truthy(package_name) /\ row.PackageName /= package_name[1])
    /\ ~(Truthy(uid) /\ PyStr(row.Uid) /= uid[1])

\* a mutant of in_range: the upper bound is forgotten
in_range_no_end(ts, start_ms, end_ms) == start_ms = None \/ ts >= start_ms[1]

in_range(ts, start_ms, end_ms) ==
    /\ (start_ms = None \/ ts >= start_ms[1])
    /\ (end_ms = None \/ ts <= end_ms[1])

\* a mutant of cap_reached: off by one
cap_reached_late(results, limit) == Len(results) > limit

\* `if len(results) >= limit`
cap_reached(results, limit) == Len(results) >= limit

RECURSIVE insert_desc(_, _)
insert_desc(sorted, x) ==
    IF sorted = <<>> THEN <<x>>
    ELSE IF Head(sorted).timestramp >= x.timestramp
         THEN <<Head(sorted)>> \o insert_desc(Tail(sorted), x)
         ELSE <<x>> \o sorted

RECURSIVE sort_desc(_, _)
sort_desc(pending, sorted) ==
    IF pending = <<>> THEN sorted
    ELSE sort_desc(Tail(pending), insert_desc(sorted, Head(pending)))

Reversed(xs) == [i \in 1..Len(xs) |-> xs[Len(xs) + 1 - i]]

\* a mutant of sort_results: reverse=True is forgotten
sort_results_ascending(results) == Reversed(sort_desc(Reversed(results), <<>>))

\* results.sort(key=timestramp, reverse=True): stable, equal keys keep their order
sort_results(results) == sort_desc(results, <<>>)

\* The scan's state: the results so far and whether the early return was taken
ScanStart == [results |-> <<>>, done |-> FALSE]

\* the loop over the samples of one row
RECURSIVE scan_recs(_, _, _)
scan_recs(st, recs, args) ==
    IF st.done \/ recs = <<>> THEN st
    ELSE IF in_range(Head(recs).timestramp, args.start_ms, args.end_ms)
         THEN LET results == Append(st.results, Head(recs))
              IN  scan_recs([results |-> results,
                             done |-> cap_reached(results, args.limit)],
                            Tail(recs), args)
         ELSE scan_recs(st, Tail(recs), args)

\* the loop over the rows of one table
RECURSIVE scan_rows(_, _, _)
scan_rows(st, rows, args) ==
    IF st.done \/ rows = <<>> THEN st
    ELSE LET row == Head(rows)
             uid_row == PyStr(row.Uid)
         IN  scan_rows(
                 IF row_passes(row, args.package_name, args.uid)
                 THEN scan_recs(st, parse_metrics(row.Metrics, row.PackageName,
                                                  uid_row), args)
                 ELSE st,
                 Tail(rows), args)

\* a mutant of scan_table: a missing table ends the scan
scan_table_stops_at_missing(st, db, t, args) ==
    IF st.done THEN st
    ELSE IF ~table_exists(db, t) THEN [st EXCEPT !.done = TRUE]
    ELSE scan_rows(st, db[t][1], args)

\* one turn of `for t in TABLES`
scan_table(st, db, t, args) ==
    IF st.done THEN st
    ELSE IF ~table_exists(db, t) THEN st
    ELSE scan_rows(st, db[t][1], args)

RECURSIVE scan_tables(_, _, _, _)
scan_tables(st, db, i, args) ==
    IF i > Len(TABLES) THEN st
    ELSE scan_tables(scan_table(st, db, TABLES[i], args), db, i + 1, args)

\* the scan as it ends: done tells the early return from the final one
collect_scan(db, args) == scan_tables(ScanStart, db, 1, args)

\* collect_processed on an existing, readable database
collect_processed(db, args) == sort_results(collect_scan(db, args).results)

----------------------------------------------------------------------------
(* Inputs of the decoder *)

\* how many chunks a blob of several chunks may have
MaxChunks == 3

\* the strings tried in each of the six positions of a chunk
FieldChoices ==
    << {<<>>, <<"0">>, <<"7">>, <<"x">>, <<" ", "9">>, <<"-", "3">>},  \* timestamp
       {<<>>, <<"0">>, <<"5">>, <<"-", "5">>, <<"x">>},                \* usage_time
       {<<>>, <<"0">>, <<"2">>, <<"x">>},                              \* delta_cpu_time
       {<<>>, <<"0">>, <<"0", ".", "4">>, <<"x">>, <<"-", ".", "5">>}, \* cpu_usage
       {<<>>, <<"3">>},                                                \* rx_data
       {<<>>, <<"4">>} >>                                              \* tx_data

RECURSIVE FieldTuples(_)
FieldTuples(k) ==
    IF k = 0 THEN {<<>>}
    ELSE {Append(t, x) : t \in FieldTuples(k - 1), x \in FieldChoices[k]}

RECURSIVE JoinWith(_, _)
JoinWith(pieces, sep) ==
    IF pieces = <<>> THEN <<>>
    ELSE IF Len(pieces) = 1 THEN pieces[1]
    ELSE pieces[1] \o <<sep>> \o JoinWith(Tail(pieces), sep)

\* single chunks of zero to six sub-fields
RichChunks ==
    UNION {{JoinWith(t, ":") : t \in FieldTuples(k)} : k \in 0..Len(FieldChoices)}

\* the chunks of blobs of several chunks: empty, blank, without a timestamp,
\* timestamp only, and a full one whose cpu_usage is to be derived
PlainChunks ==
    {<<>>, <<" ">>, <<"x", ":", "1">>, <<"0">>,
     <<"7", ":", "-", "5", ":", "2", ":", ":", "3", ":", "4">>}

BSeq(S, n) == UNION {[1..k -> S] : k \in 0..n}

Blobs ==
    RichChunks \cup {JoinWith(cs, ";") : cs \in BSeq(PlainChunks, MaxChunks)}

----------------------------------------------------------------------------
(* Inputs of the collector *)

\* how many rows a database holds, over its three tables
MaxRows == 2

\* the largest limit tried
MaxLimit == 4

IntVal(i) == [t |-> "int", v |-> i]

TextVal(str) == [t |-> "text", v |-> str]

\* rows (PackageName, Uid, Metrics); Pids is never read.  Timestamps 5 and 3;
\* 5, a chunk without timestamp, and 2; and 9.  Uid 7 is stored once as an
\* integer and once as text.
Rows ==
    { [PackageName |-> <<"a">>, Uid |-> IntVal(7),
       Metrics |-> <<"5", ":", "4", ":", "2", ";", "3">>],
      [PackageName |-> <<"b">>, Uid |-> TextVal(<<"7">>),
       Metrics |-> <<"5", ";", "x", ":", "1", ";", "2">>],
      [PackageName |-> <<>>, Uid |-> TextVal(<<>>), Metrics |-> <<"9">>] }

\* a table: missing, or its rows in storage order
TableValues == {None} \cup {Some(rows) : rows \in BSeq(Rows, MaxRows)}

RowCount(tbl) == IF tbl = None THEN 0 ELSE Len(tbl[1])

Databases ==
    {db \in [TableNames -> TableValues] :
        RowCount(db["processes1"]) + RowCount(db["processes2"])
            + RowCount(db["processes3"]) <= MaxRows}

\* the (package_name, uid) filters tried: none, each alone (the empty string
\* included), and both together
FilterPairs ==
    { <<None, None>>,
      <<Some(<<>>), None>>, <<Some(<<"a">>), None>>,
      <<None, Some(<<>>)>>, <<None, Some(<<"7">>)>>,
      <<Some(<<"a">>), Some(<<"7">>)>>, <<Some(<<>>), Some(<<>>)>> }

CollectArgs ==
    {[start_ms |-> s, end_ms |-> e, limit |-> l,
      package_name |-> f[1], uid |-> f[2]] :
        s \in {None, Some(3)}, e \in {None, Some(5)}, l \in 1..MaxLimit,
        f \in FilterPairs}

----------------------------------------------------------------------------
(* Values of the variables of a specification that does not use them *)

ParseIdle == [metrics |-> <<>>, pkg |-> <<>>, uid |-> <<>>, called |-> FALSE, out |-> <<>>]

CollectIdle ==
    [db |-> [t \in TableNames |-> None],
     args |-> [start_ms |-> None, end_ms |-> None, limit |-> 1,
               package_name |-> None, uid |-> None],
     returned |-> FALSE, capped |-> FALSE, results |-> <<>>]

NoRequest == [endpoint |-> "none"]

NoResponse == [status |-> 0]

UploadIdle == [pc |-> "idle"]

QueryIdle == [pc |-> "idle"]

ServerIdle ==
    /\ dbFile = None /\ req = NoRequest /\ resp = NoResponse
    /\ collected = FALSE /\ uploaded = FALSE

ConcIdle == liveFile = None /\ up = UploadIdle /\ qry = QueryIdle

----------------------------------------------------------------------------
(* SpecParse: parse_metrics applied to every blob of Blobs *)

InitParse ==
    /\ parseCall \in {[metrics |-> m, pkg |-> <<"a">>, uid |-> <<"7">>,
                       called |-> FALSE, out |-> <<>>] : m \in Blobs}
    /\ collectCall = CollectIdle
    /\ ServerIdle /\ ConcIdle

ParseMetrics ==
    /\ ~parseCall.called
    /\ parseCall' = [parseCall EXCEPT
                        !.called = TRUE,
                        !.out = parse_metrics(parseCall.metrics, parseCall.pkg,
                                              parseCall.uid)]
    /\ UNCHANGED <<collectCall, dbFile, req, resp, collected, uploaded,
                   liveFile, up, qry>>

NextParse == ParseMetrics

SpecParse == InitParse /\ [][NextParse]_vars

----------------------------------------------------------------------------
(* Claims about parse_metrics, under SpecParse *)

\* an integer literal: after trimming, an optional sign and then digits only
IsIntLiteral(f) ==
    LET t == strip(f)
        n == Len(t)
        first == IF n > 0 /\ t[1] \in {"+", "-"} THEN 2 ELSE 1
    IN  /\ first <= n
        /\ \A i \in first..n : t[i] \in Digits

\* the sub-fields of a chunk
SubFields(chunk) == split(chunk, ":")

\* a chunk that is to give a sample: not blank, and its timestamp an integer
GivesSample(chunk) ==
    /\ strip(chunk) /= <<>>
    /\ IsIntLiteral(SubFields(chunk)[1])

\* the chunks of the call's blob that are to give a sample, in blob order
KeptChunks == SelectSeq(split(parseCall.metrics, ";"), GivesSample)

\* the raw sub-fields of a chunk
RawInt(chunk, field) == geti(SubFields(chunk), METRICS_INDEX[field])

RawCpu(chunk) == getf(SubFields(chunk), METRICS_INDEX.cpu_usage)

IsFloat(x) == DOMAIN x = {"n", "d"} /\ x.n \in Int /\ x.d \in Nat \ {0}

\* C5: parse_metrics gives one sample per chunk that is not blank and whose
\* timestamp sub-field parses as an integer, in blob order, and no other; each
\* sample carries that timestamp, the row's uid and package name, and for
\* every other field the parsed value, or 0 / 0.0 when it is absent or
\* unparsable.
C5_SampleInvariant ==
    parseCall.called =>
        LET kept == KeptChunks
        IN  /\ Len(parseCall.out) = Len(kept)
            /\ \A i \in 1..Len(parseCall.out) :
                  LET smp == parseCall.out[i]
                  IN  /\ smp.timestramp \in Int
                      /\ Some(smp.timestramp) = PyInt(SubFields(kept[i])[1])
                      /\ smp.uid = parseCall.uid
                      /\ smp.package_name = parseCall.pkg
                      /\ \A f \in {"usage_time", "delta_cpu_time", "rx_data", "tx_data"} :
                            LET raw == RawInt(kept[i], f)
                            IN  /\ smp[f] \in Int
                                /\ smp[f] = IF raw = None THEN 0 ELSE raw[1]
                      /\ IsFloat(smp.cpu_usage)

\* C5 witness: a blob with a blank chunk, a chunk dropped for its timestamp
\* and a chunk kept with timestamp 0 and a defaulted usage_time
C5_Witness ==
    LET chunks == split(parseCall.metrics, ";")
    IN  /\ parseCall.called
        /\ Len(chunks) = 3
        /\ Len(parseCall.out) = 1
        /\ \E c \in 1..3 : strip(chunks[c]) = <<>>
        /\ \E c \in 1..3 : strip(chunks[c]) /= <<>> /\ ~GivesSample(chunks[c])
        /\ parseCall.out[1].timestramp = 0
        /\ parseCall.out[1].usage_time = 0
        /\ RawInt(KeptChunks[1], "usage_time") = None

\* C4 as stated: the raw cpu_usage when present; else delta_cpu_time /
\* usage_time when usage_time > 0 and delta_cpu_time is present; else 0.0.
C4_DerivationLaw_AsStated ==
    LET kept == KeptChunks
    IN  parseCall.called /\ Len(parseCall.out) = Len(kept) =>
            \A i \in 1..Len(parseCall.out) :
                LET usage == RawInt(kept[i], "usage_time")
                    dcpu  == RawInt(kept[i], "delta_cpu_time")
                    cpu   == RawCpu(kept[i])
                IN  parseCall.out[i].cpu_usage =
                        IF cpu /= None THEN cpu[1]
                        ELSE IF usage /= None /\ usage[1] > 0 /\ dcpu /= None
                             THEN Rat(dcpu[1], usage[1])
                             ELSE FloatZero

\* C4 amended: the raw cpu_usage when present; else delta_cpu_time /
\* usage_time when usage_time is present and not zero (negative included) and
\* delta_cpu_time is present; else 0.0.
C4_DerivationLaw ==
    LET kept == KeptChunks
    IN  parseCall.called /\ Len(parseCall.out) = Len(kept) =>
            \A i \in 1..Len(parseCall.out) :
                LET usage == RawInt(kept[i], "usage_time")
                    dcpu  == RawInt(kept[i], "delta_cpu_time")
                    cpu   == RawCpu(kept[i])
                IN  parseCall.out[i].cpu_usage =
                        IF cpu /= None THEN cpu[1]
                        ELSE IF usage /= None /\ usage[1] /= 0 /\ dcpu /= None
                             THEN Rat(dcpu[1], usage[1])
                             ELSE FloatZero

\* C4 witness: a sample whose cpu_usage was derived from a negative usage_time
C4_Witness ==
    LET kept == KeptChunks
    IN  /\ parseCall.called
        /\ Len(parseCall.out) = Len(kept)
        /\ \E i \in 1..Len(parseCall.out) :
              /\ RawCpu(kept[i]) = None
              /\ RawInt(kept[i], "usage_time") = Some(-5)
              /\ RawInt(kept[i], "delta_cpu_time") = Some(2)
              /\ parseCall.out[i].cpu_usage = [n |-> -2, d |-> 5]

----------------------------------------------------------------------------
(* SpecCollect: collect_processed applied to every database of Databases,   *)
(* which exists and is readable, with every argument of CollectArgs         *)

InitCollect ==
    /\ collectCall \in {[db |-> db, args |-> a, returned |-> FALSE,
                         capped |-> FALSE, results |-> <<>>] :
                           db \in Databases, a \in CollectArgs}
    /\ parseCall = ParseIdle
    /\ ServerIdle /\ ConcIdle

CollectProcessed ==
    /\ ~collectCall.returned
    /\ LET st == collect_scan(collectCall.db, collectCall.args)
       IN  collectCall' = [collectCall EXCEPT
               !.returned = TRUE,
               !.capped = st.done,
               !.results = sort_results(st.results)]
    /\ UNCHANGED <<parseCall, dbFile, req, resp, collected, uploaded,
                   liveFile, up, qry>>

NextCollect == CollectProcessed

SpecCollect == InitCollect /\ [][NextCollect]_vars

----------------------------------------------------------------------------
(* Claims about collect_processed, under SpecCollect *)

RECURSIVE Flatten(_)
Flatten(seqs) == IF seqs = <<>> THEN <<>> ELSE Head(seqs) \o Flatten(Tail(seqs))

\* the rows of the existing tables, in table order and storage order
RowsInScanOrder(db) ==
    Flatten([i \in 1..Len(TABLES) |->
                IF db[TABLES[i]] = None THEN <<>> ELSE db[TABLES[i]][1]])

\* every sample the database decodes to, in scan order
SamplesInScanOrder(db) ==
    LET rows == RowsInScanOrder(db)
    IN  Flatten([i \in 1..Len(rows) |->
                    parse_metrics(rows[i].Metrics, rows[i].PackageName,
                                  PyStr(rows[i].Uid))])

\* a filter is in effect when it is given and not the empty string
InEffect(f) == f /= None /\ f[1] /= <<>>

\* a sample passes every filter of the call
PassesCall(smp) ==
    LET a == collectCall.args
    IN  /\ InEffect(a.package_name) => smp.package_name = a.package_name[1]
        /\ InEffect(a.uid) => smp.uid = a.uid[1]
        /\ a.start_ms /= None => smp.timestramp >= a.start_ms[1]
        /\ a.end_ms /= None => smp.timestramp <= a.end_ms[1]

\* M: the samples that pass every filter, in scan order
Matching == SelectSeq(SamplesInScanOrder(collectCall.db), PassesCall)

Min(a, b) == IF a <= b THEN a ELSE b

Occurrences(xs, x) == Cardinality({i \in 1..Len(xs) : xs[i] = x})

SameMultiset(xs, ys) ==
    /\ Len(xs) = Len(ys)
    /\ \A i \in 1..Len(xs) : Occurrences(xs, xs[i]) = Occurrences(ys, xs[i])

\* C1: the sequence collect_processed returns is never longer than limit.
C1_CapLaw ==
    collectCall.returned => Len(collectCall.results) <= collectCall.args.limit

\* C1 witness: the cap was reached while more samples matched
C1_Witness ==
    /\ collectCall.returned /\ collectCall.capped
    /\ collectCall.args.limit = 2
    /\ Len(collectCall.results) = 2
    /\ Len(Matching) > 2

\* C2: every returned sample has timestamp >= start_ms when start_ms is given
\* and timestamp <= end_ms when end_ms is given, on both return paths.
C2_FilteringLaw ==
    collectCall.returned =>
        \A i \in 1..Len(collectCall.results) :
            LET ts == collectCall.results[i].timestramp
                a  == collectCall.args
            IN  /\ a.start_ms /= None => ts >= a.start_ms[1]
                /\ a.end_ms /= None => ts <= a.end_ms[1]

\* C2 witness: an early return under both bounds, from a database holding a
\* sample below the range and one above it, with a sample on a bound returned
C2_Witness ==
    LET a == collectCall.args
        all == SamplesInScanOrder(collectCall.db)
    IN  /\ collectCall.returned /\ collectCall.capped
        /\ a.start_ms /= None /\ a.end_ms /= None
        /\ \E i \in 1..Len(all) : all[i].timestramp < a.start_ms[1]
        /\ \E i \in 1..Len(all) : all[i].timestramp > a.end_ms[1]
        /\ \E i \in 1..Len(collectCall.results) :
              collectCall.results[i].timestramp = a.end_ms[1]

\* C3 as stated: without the cap reached, each returned timestamp is strictly
\* greater than the next one.
C3_OrderingLaw_AsStated ==
    collectCall.returned /\ ~collectCall.capped =>
        \A i \in 1..(Len(collectCall.results) - 1) :
            collectCall.results[i].timestramp > collectCall.results[i + 1].timestramp

\* C3 amended: without the cap reached, each returned timestamp is greater
\* than or equal to the next one (equal timestamps stay adjacent).
C3_OrderingLaw ==
    collectCall.returned /\ ~collectCall.capped =>
        \A i \in 1..(Len(collectCall.results) - 1) :
            collectCall.results[i].timestramp >= collectCall.results[i + 1].timestramp

\* C3 witness: a full scan whose samples were met out of order, returned with
\* two equal timestamps followed by a smaller one
C3_Witness ==
    LET r == collectCall.results
    IN  /\ collectCall.returned /\ ~collectCall.capped
        /\ Len(r) >= 3
        /\ r /= Matching
        /\ \E i \in 1..(Len(r) - 2) :
              /\ r[i].timestramp = r[i + 1].timestramp
              /\ r[i + 1].timestramp > r[i + 2].timestramp

\* C9 as stated: whenever a package_name (a uid) filter value is passed, the
\* empty string included, every returned sample has that package_name (uid).
C9_ExactMatch_AsStated ==
    collectCall.returned =>
        \A i \in 1..Len(collectCall.results) :
            LET a == collectCall.args
            IN  /\ a.package_name /= None =>
                      collectCall.results[i].package_name = a.package_name[1]
                /\ a.uid /= None => collectCall.results[i].uid = a.uid[1]

\* C9 amended: whenever a non-empty package_name (uid) filter value is passed,
\* every returned sample has that package_name (that uid, as a string); the
\* empty string filters nothing.
C9_ExactMatch ==
    collectCall.returned =>
        \A i \in 1..Len(collectCall.results) :
            LET a == collectCall.args
            IN  /\ (a.package_name /= None /\ a.package_name[1] /= <<>>) =>
                      collectCall.results[i].package_name = a.package_name[1]
                /\ (a.uid /= None /\ a.uid[1] /= <<>>) =>
                      collectCall.results[i].uid = a.uid[1]

\* C9 witness: a uid filter "7" that returned the samples of a row whose Uid
\* is the integer 7 and left out a row with another uid
C9_Witness ==
    LET rows == RowsInScanOrder(collectCall.db)
    IN  /\ collectCall.returned
        /\ collectCall.args.uid = Some(<<"7">>)
        /\ collectCall.results /= <<>>
        /\ \E i \in 1..Len(rows) : rows[i].Uid.t = "int" /\ rows[i].Uid.v = 7
        /\ \E i \in 1..Len(rows) : PyStr(rows[i].Uid) /= <<"7">>
        /\ \A i \in 1..Len(rows) :
              rows[i].Uid.t = "int" \/ rows[i].Uid.v /= <<"7">>

C10_WitnessFullScan ==
    /\ collectCall.returned /\ ~collectCall.capped
    /\ collectCall.db["processes2"] = None
    /\ collectCall.db["processes1"] /= None /\ collectCall.db["processes3"] /= None
    /\ Len(collectCall.results) = 2

----------------------------------------------------------------------------
(* The HTTP handlers, each request handled to its end before the next       *)

\* the file at DB_PATH holds an SQLite database or bytes that are none
SqliteFile(db) == [kind |-> "sqlite", db |-> db]

GarbageFile == [kind |-> "garbage"]

\* the zero-length file sqlite3.connect creates: a database without tables
EmptyDatabase == [t \in TableNames |-> None]

\* `Query(1000, ge=1, le=100_000)`
limit_valid(limit) == limit >= 1 /\ limit <= 100000

Lower(c) ==
    CASE c = "D" -> "d" [] c = "B" -> "b" [] c = "S" -> "s" [] c = "Q" -> "q"
      [] c = "L" -> "l" [] OTHER -> c

EndsWith(str, suffix) ==
    /\ Len(str) >= Len(suffix)
    /\ SubSeq(str, Len(str) - Len(suffix) + 1, Len(str)) = suffix

\* `file.filename.lower().endswith((".sqlite", ".db", ".sql"))`
filename_accepted(filename) ==
    LET low == [i \in 1..Len(filename) |-> Lower(filename[i])]
    IN  \E suffix \in {<<".", "s", "q", "l", "i", "t", "e">>, <<".", "d", "b">>,
                       <<".", "s", "q", "l">>} : EndsWith(low, suffix)

\* connect(): 400 when the file does not exist
connect_fails(file) == file = None

NoDatabase == [status |-> 400, detail |-> "Nenhum banco enviado"]

BadRange == [status |-> 400, detail |-> "start_ms deve ser <= end_ms"]

BadFile == [status |-> 400, detail |-> "Envie um arquivo SQLite"]

NotFound == [status |-> 404, detail |-> "Nenhum registro encontrado"]

Unprocessable == [status |-> 422, detail |-> "validation"]

\* an sqlite3.DatabaseError no handler catches
ServerError == [status |-> 500, detail |-> "file is not a database"]

Ok(body) == [status |-> 200, body |-> body]

\* the outcome of calling collect_processed on the file: an error response
\* for a missing or unreadable file, else the items
collect_outcome(file, args) ==
    IF connect_fails(file) THEN [error |-> TRUE, resp |-> NoDatabase]
    ELSE IF file[1].kind = "garbage" THEN [error |-> TRUE, resp |-> ServerError]
    ELSE [error |-> FALSE, items |-> collect_processed(file[1].db, args)]

\* GET /processes
processes(start_ms, end_ms, package_name, uid, limit) ==
    LET args == [start_ms |-> Some(start_ms), end_ms |-> Some(end_ms),
                 limit |-> limit, package_name |-> package_name, uid |-> uid]
        out == collect_outcome(dbFile, args)
    IN  /\ req' = [endpoint |-> "processes", start_ms |-> Some(start_ms),
                   end_ms |-> Some(end_ms), limit |-> limit,
                   package_name |-> package_name, uid |-> uid]
        /\ IF ~limit_valid(limit)
           THEN resp' = Unprocessable /\ collected' = FALSE
           ELSE IF start_ms > end_ms
           THEN resp' = BadRange /\ collected' = FALSE
           ELSE /\ collected' = TRUE
                /\ resp' = IF out.error THEN out.resp ELSE Ok(out.items)
        /\ UNCHANGED <<dbFile, uploaded>>

\* GET /processes-latest
processes_latest(limit, package_name, uid) ==
    LET args == [start_ms |-> None, end_ms |-> None,
                 limit |-> limit, package_name |-> package_name, uid |-> uid]
        out == collect_outcome(dbFile, args)
    IN  /\ req' = [endpoint |-> "processes-latest", limit |-> limit,
                   package_name |-> package_name, uid |-> uid]
        /\ IF ~limit_valid(limit)
           THEN resp' = Unprocessable /\ collected' = FALSE
           ELSE /\ collected' = TRUE
                /\ resp' = IF out.error THEN out.resp
                           ELSE IF out.items = <<>> THEN NotFound
                           ELSE Ok(out.items)
        /\ UNCHANGED <<dbFile, uploaded>>

\* POST /upload-db: the file is written before it is read back; `uploaded`
\* records that an upload has stored its file
upload_db(filename, data, start_ms, end_ms, package_name, uid, limit) ==
    LET args == [start_ms |-> start_ms, end_ms |-> end_ms,
                 limit |-> limit, package_name |-> package_name, uid |-> uid]
        out == collect_outcome(Some(data), args)
    IN  /\ req' = [endpoint |-> "upload-db", filename |-> filename,
                   start_ms |-> start_ms, end_ms |-> end_ms, limit |-> limit,
                   package_name |-> package_name, uid |-> uid]
        /\ IF ~limit_valid(limit)
           THEN resp' = Unprocessable /\ collected' = FALSE
                /\ UNCHANGED <<dbFile, uploaded>>
           ELSE IF ~filename_accepted(filename)
           THEN resp' = BadFile /\ collected' = FALSE
                /\ UNCHANGED <<dbFile, uploaded>>
           ELSE /\ dbFile' = Some(data)
                /\ uploaded' = TRUE
                /\ collected' = TRUE
                /\ resp' = IF out.error THEN out.resp
                           ELSE Ok([count |-> Len(out.items), results |-> out.items])

\* what sqlite3.connect(str(DB_PATH)) leaves at DB_PATH: a missing file is
\* created empty
after_sqlite_connect(file) == IF file = None THEN Some(SqliteFile(EmptyDatabase)) ELSE file

\* GET /debug/tables: connects without connect()'s existence check
debug_tables ==
    LET file == after_sqlite_connect(dbFile)
    IN  /\ req' = [endpoint |-> "debug/tables"]
        /\ dbFile' = file
        /\ collected' = FALSE
        /\ resp' = IF file[1].kind = "garbage" THEN ServerError
                   ELSE Ok(SelectSeq(TABLES, LAMBDA t : table_exists(file[1].db, t)))
        /\ UNCHANGED uploaded

\* `LIMIT ?` over a table's rows
first_rows(rows, limit) == SubSeq(rows, 1, IF limit < Len(rows) THEN limit ELSE Len(rows))

\* GET /debug/sample (limit left at its default or given)
debug_sample(limit) ==
    LET file == after_sqlite_connect(dbFile)
    IN  /\ req' = [endpoint |-> "debug/sample", limit |-> limit]
        /\ dbFile' = file
        /\ collected' = FALSE
        /\ resp' = IF file[1].kind = "garbage" THEN ServerError
                   ELSE Ok([t \in TableNames |->
                              IF table_exists(file[1].db, t)
                              THEN Some(first_rows(file[1].db[t][1], limit))
                              ELSE None])
        /\ UNCHANGED uploaded

\* GET /: the upload form
home ==
    /\ req' = [endpoint |-> "home"]
    /\ resp' = Ok("form")
    /\ collected' = FALSE
    /\ UNCHANGED <<dbFile, uploaded>>

----------------------------------------------------------------------------
(* Spec: any sequence of requests, starting before any upload *)

\* the databases uploaded to the server: processes2 alone, missing, empty or
\* with one row
ServerDatabases ==
    {db \in Databases : /\ db["processes1"] = None /\ db["processes3"] = None
                        /\ RowCount(db["processes2"]) <= 1}

UploadedFiles == {SqliteFile(db) : db \in ServerDatabases} \cup {GarbageFile}

Filenames == {<<"a", ".", "D", "B">>, <<"a", ".", "t", "x", "t">>}

\* limits a client may send: 0 fails validation
RequestLimits == {0, 1, 2}

RequestFilters == {<<None, None>>, <<Some(<<"a">>), None>>}

Init ==
    /\ ServerIdle
    /\ parseCall = ParseIdle /\ collectCall = CollectIdle /\ ConcIdle

Processes ==
    /\ \E start_ms \in {3, 6}, end_ms \in {5}, limit \in RequestLimits,
          f \in RequestFilters :
            processes(start_ms, end_ms, f[1], f[2], limit)
    /\ UNCHANGED <<parseCall, collectCall, liveFile, up, qry>>

ProcessesLatest ==
    /\ \E limit \in RequestLimits, f \in RequestFilters :
            processes_latest(limit, f[1], f[2])
    /\ UNCHANGED <<parseCall, collectCall, liveFile, up, qry>>

UploadDb ==
    /\ \E filename \in Filenames, data \in UploadedFiles,
          start_ms \in {None, Some(3), Some(6)}, end_ms \in {None, Some(5)},
          limit \in RequestLimits, f \in RequestFilters :
            upload_db(filename, data, start_ms, end_ms, f[1], f[2], limit)
    /\ UNCHANGED <<parseCall, collectCall, liveFile, up, qry>>

DebugTables ==
    /\ debug_tables
    /\ UNCHANGED <<parseCall, collectCall, liveFile, up, qry>>

DebugSample ==
    /\ \E limit \in {1, 3} : debug_sample(limit)
    /\ UNCHANGED <<parseCall, collectCall, liveFile, up, qry>>

Home ==
    /\ home
    /\ UNCHANGED <<parseCall, collectCall, liveFile, up, qry>>

Next ==
    \/ Processes
    \/ ProcessesLatest
    \/ UploadDb
    \/ DebugTables
    \/ DebugSample
    \/ Home

Spec == Init /\ [][Next]_vars

----------------------------------------------------------------------------
(* Claims about the handlers, under Spec *)

\* the request handled last is a query that passed validation
ValidQuery ==
    \/ req.endpoint = "processes-latest" /\ limit_valid(req.limit)
    \/ /\ req.endpoint = "processes" /\ limit_valid(req.limit)
       /\ req.start_ms[1] <= req.end_ms[1]

\* C6: while no upload has stored a file, whatever requests came before
\* (debug calls and rejected uploads included), a query through /processes or
\* /processes-latest is answered with the 400 "no database uploaded" failure.
C6_MissingStorageReported ==
    (~uploaded /\ ValidQuery) => resp = NoDatabase

\* C7: a request to /processes or /upload-db with start_ms > end_ms is
\* rejected with 400 and never invokes collect_processed.
C7_InvalidRangeRejected ==
    (/\ req.endpoint \in {"processes", "upload-db"}
     /\ req.start_ms /= None /\ req.end_ms /= None
     /\ req.start_ms[1] > req.end_ms[1]
     /\ limit_valid(req.limit)
     /\ req.endpoint = "upload-db" => filename_accepted(req.filename))
        => (~collected /\ resp = BadRange)

----------------------------------------------------------------------------
(* SpecConc: an upload on the event loop and a query on a worker thread,    *)
(* interleaved at their accesses to the file at DB_PATH                     *)

\* in how many pieces the bytes of an upload reach the file
FileBlocks == 2

\* the databases uploaded: every table exists, processes1 and processes3
\* hold the same single row
ConcDatabases ==
    {db \in Databases : /\ db["processes2"] = Some(<<>>)
                        /\ RowCount(db["processes1"]) = 1
                        /\ db["processes3"] = db["processes1"]}

\* the query of SpecConc: no filter, the largest limit
ConcArgs ==
    [start_ms |-> None, end_ms |-> None, limit |-> MaxLimit,
     package_name |-> None, uid |-> None]

InitConc ==
    /\ ConcIdle
    /\ parseCall = ParseIdle /\ collectCall = CollectIdle /\ ServerIdle

\* `data = await file.read()` and `open(DB_PATH, "wb")`: the file is cut to
\* zero length before any byte of the new one is written
UploadOpen ==
    /\ up.pc = "idle"
    /\ \E db \in ConcDatabases :
          /\ up' = [pc |-> "writing", data |-> SqliteFile(db)]
          /\ liveFile' = Some([content |-> SqliteFile(db), blocks |-> 0])
    /\ UNCHANGED <<parseCall, collectCall, dbFile, req, resp, collected,
                   uploaded, qry>>

\* `f.write(data)`, one piece at a time, and the close that ends the `with`
UploadWrite ==
    /\ up.pc = "writing"
    /\ liveFile' = Some([liveFile[1] EXCEPT !.blocks = @ + 1])
    /\ up' = IF liveFile[1].blocks + 1 = FileBlocks
             THEN [up EXCEPT !.pc = "written"] ELSE up
    /\ UNCHANGED <<parseCall, collectCall, dbFile, req, resp, collected,
                   uploaded, qry>>

\* the upload's own collect_processed, on the file it has just closed
UploadCollect ==
    /\ up.pc = "written"
    /\ LET out == collect_outcome(Some(liveFile[1].content), ConcArgs)
       IN  up' = [pc |-> "collected",
                  resp |-> IF out.error THEN out.resp
                           ELSE Ok([count |-> Len(out.items), results |-> out.items])]
    /\ UNCHANGED <<parseCall, collectCall, dbFile, req, resp, collected,
                   uploaded, liveFile, qry>>

\* the upload's response is sent; the next upload may start
UploadRespond ==
    /\ up.pc = "collected"
    /\ up' = UploadIdle
    /\ UNCHANGED <<parseCall, collectCall, dbFile, req, resp, collected,
                   uploaded, liveFile, qry>>

\* connect() in a query: the existence check, then the connection
QueryConnect ==
    /\ qry.pc = "idle"
    /\ qry' = IF connect_fails(liveFile)
              THEN [pc |-> "done", observed |-> <<>>, resp |-> NoDatabase]
              ELSE [pc |-> "scanning", next |-> 1, st |-> ScanStart,
                    observed |-> <<>>]
    /\ UNCHANGED <<parseCall, collectCall, dbFile, req, resp, collected,
                   uploaded, liveFile, up>>

\* one turn of `for t in TABLES`, reading the file as it is now.  A file of
\* zero length is a database without tables.  What a partly written file
\* gives is not defined: the rows of the file being written, or a
\* DatabaseError ("database disk image is malformed").
QueryScanTable ==
    /\ qry.pc = "scanning" /\ ~qry.st.done /\ qry.next <= Len(TABLES)
    /\ LET seen == liveFile[1]
           observed == Append(qry.observed, seen)
           db == IF seen.blocks = 0 THEN EmptyDatabase ELSE seen.content.db
           read == [qry EXCEPT !.next = @ + 1, !.observed = observed,
                               !.st = scan_table(qry.st, db, TABLES[qry.next], ConcArgs)]
           failed == [pc |-> "done", observed |-> observed, resp |-> ServerError]
       IN  \/ qry' = read
           \/ seen.blocks \in 1..(FileBlocks - 1) /\ qry' = failed
    /\ UNCHANGED <<parseCall, collectCall, dbFile, req, resp, collected,
                   uploaded, liveFile, up>>

\* the sort and the return, on either path
QueryReturn ==
    /\ qry.pc = "scanning" /\ (qry.st.done \/ qry.next > Len(TABLES))
    /\ qry' = [pc |-> "done", observed |-> qry.observed,
               resp |-> Ok(sort_results(qry.st.results))]
    /\ UNCHANGED <<parseCall, collectCall, dbFile, req, resp, collected,
                   uploaded, liveFile, up>>

\* the response is sent; the next query may start
QueryRespond ==
    /\ qry.pc = "done"
    /\ qry' = QueryIdle
    /\ UNCHANGED <<parseCall, collectCall, dbFile, req, resp, collected,
                   uploaded, liveFile, up>>

NextConc ==
    \/ UploadOpen
    \/ UploadWrite
    \/ UploadCollect
    \/ UploadRespond
    \/ QueryConnect
    \/ QueryScanTable
    \/ QueryReturn
    \/ QueryRespond

SpecConc == InitConc /\ [][NextConc]_vars

\* C8: every read of a scan sees a completely written file, and all reads of
\* one scan see the same file: the previous database or the new one.
C8_AtomicReplacement ==
    qry.pc /= "idle" =>
        \A i \in 1..Len(qry.observed) :
            /\ qry.observed[i].blocks = FileBlocks
            /\ qry.observed[i].content = qry.observed[1].content

====
